---- MODULE Spec2Model ----
(***************************************************************************)
(* Download-Manager: the menu loop and the lifecycle operations            *)
(* (handleDownload, handleUninstall, handleUpdate, startRepo) of the two   *)
(* variants of the tool, src/unnamed/part_000 and src/index.cjs.           *)
(* One step of the model is one stretch of synchronous code between two    *)
(* awaits; the network, the filesystem, the user and npm are inputs.       *)
(***************************************************************************)
EXTENDS Integers, Sequences, FiniteSets, TLC

VARIABLES
    variant,      \* which program runs: "part_000" or "index_cjs"
    pc,           \* position of the single flow of control
    action,       \* mainMenu: the answer to the action prompt
    item,         \* mainMenu: the selected catalog entry
    disk,         \* per catalog entry: does <__dirname>/<folder> exist, and its files
    remoteTree,   \* the repository's tree (response.data.tree) at the time of the call
    files,        \* handleDownload: const files
    idx,          \* handleDownload: loop variable i
    bar,          \* handleDownload: the cliProgress bar
    attempt,      \* downloadFile: loop variable i
    response,     \* downloadFile: response.data of the last successful axios.get
    rmTry,        \* removeWithRetries: loop variable i
    rmFailures,   \* environment: how many more fs.remove calls fail before one succeeds
    log,          \* console messages of the current operation
    wasInstalled, \* observation: the folder existed when the operation was invoked
    dlStartExists,\* observation: existsSync(targetFolder) at handleDownload's entry
    unResult,     \* observation: how handleUninstall ended
    dlResult,     \* observation: how handleDownload ended
    listReqs,     \* observation: tree-listing requests of the current operation
    fetched,      \* observation: paths a raw-content request was issued for
    written,      \* observation: path -> body handed to the writeFile that succeeded
    dfAttempts,   \* observation: axios.get calls of the current downloadFile call
    dfWaits,      \* observation: completed 1000 ms waits of the current downloadFile call
    dfNetFails,   \* observation: attempts of the current call the transport failed
    dfFsFails,    \* observation: attempts of the current call ensureDir/writeFile failed
    rmAttempts,   \* observation: fs.remove calls of the current handleUninstall
    rmWaits,      \* observation: completed 500 ms waits of the current handleUninstall
    dlRemoves,    \* observation: fs.remove calls of the current handleDownload
    npmRuns,      \* observation: npm install commands run by the current operation
    launched,     \* observation: startRepo called exec
    suFile,       \* selfUpdate: how many of FILES_TO_CHECK the loop has done
    updated,      \* selfUpdate: let updated
    restart       \* selfUpdate: the restart timer: "none", "scheduled" or "fired"

vars == <<variant, pc, action, item, disk, remoteTree, files, idx, bar, attempt,
          response, rmTry, rmFailures, log, wasInstalled, dlStartExists, unResult,
          dlResult, listReqs, fetched, written, dfAttempts, dfWaits, dfNetFails,
          dfFsFails, rmAttempts, rmWaits, dlRemoves, npmRuns, launched, suFile,
          updated, restart>>

-----------------------------------------------------------------------------
(* Bounds of the model *)

\* longest tree listing the hosting API returns
MaxListing == 2
\* most fs.remove calls in a row the filesystem lets fail
MaxRmFails == 5

(* Program constants *)

\* downloadFile(..., retries = 3)
DownloadRetries == 3
\* removeWithRetries(folder, retries = 5, ...)
RemoveRetries == 5

Variants == {"part_000", "index_cjs"}

\* const FILES_TO_CHECK = ["index.js", "available.json"]
FilesToCheck == <<"index.js", "available.json">>

\* available.json: the catalog entries (their folders are distinct)
Catalog == {"e1"}

\* item.startFile || "index.js"
StartFile(e) == "index.js"

\* paths a repository tree may hold
Paths == {"index.js", "src", "src/a.js", "package.json"}

\* the type the tree gives each path
TypeOf(p) == IF p = "src" THEN "tree" ELSE "blob"

\* response bodies the raw-content host may send
Bodies == {"b1", "b2"}

None == "none"
Partial == "partial"
Content == Bodies \cup {Partial}

RECURSIVE SeqsUpTo(_, _)
\* the sequences without repetition over S of length at most n
SeqsUpTo(S, n) ==
    IF n = 0 THEN {<<>>}
    ELSE LET shorter == SeqsUpTo(S, n - 1)
         IN  shorter \cup
             {Append(s, x) : s \in {t \in shorter : Len(t) = n - 1}, x \in S}

NoRepeat(s) == \A a, b \in 1..Len(s) : a # b => s[a] # s[b]

\* the tree listings the API may return: sequences of {path, type}
Listings ==
    {[k \in 1..Len(s) |-> [path |-> s[k], type |-> TypeOf(s[k])]] :
        s \in {t \in SeqsUpTo(Paths, MaxListing) : NoRepeat(t)}}

EmptyFolder == [exists |-> FALSE, files |-> [p \in Paths |-> None]]

NoBar == [total |-> 0, value |-> 0, active |-> FALSE]

NoWritten == [p \in Paths |-> None]

-----------------------------------------------------------------------------
(* Pure helpers *)

\* a faulty variant: the type filter is dropped
BlobFilterKeepsAll(tree) == tree

\* response.data.tree.filter(file => file.type === "blob")
BlobFilter(tree) == SelectSeq(tree, LAMBDA f : f.type = "blob")

\* a faulty variant: the loop runs while i < retries
LastDownloadAttemptEarly(a) == a = DownloadRetries - 1

\* a faulty variant: the catch block tests i === retries + 1
LastDownloadAttemptLate(a) == a = DownloadRetries + 1

\* for (let i = 0; i <= retries; i++): attempt a is the last one
LastDownloadAttempt(a) == a = DownloadRetries

\* for (let i = 0; i < retries; i++): try t is the last one
LastRemoveTry(t) == t = RemoveRetries - 1

\* the menu's action choices
MenuChoices(v) ==
    IF v = "part_000" THEN {"Download", "Start", "Uninstall", "Update", "Exit"}
    ELSE {"Download", "Uninstall", "Update", "Exit"}

\* fs.existsSync(path.join(__dirname, item.folder))
Installed(e) == disk[e].exists

\* a faulty variant: the repository prompt offers the whole catalog for every action
FilteredDataAll(a) == Catalog

\* filteredData: part_000 offers only installed entries to Start, Uninstall, Update
FilteredData(a) ==
    IF variant = "part_000" /\ a \in {"Start", "Uninstall", "Update"}
    THEN {e \in Catalog : Installed(e)}
    ELSE Catalog

\* the paths that exist under a folder
FileSet(d) == {p \in Paths : d.files[p] # None}

\* the paths of a listing's blob entries
BlobPaths(tree) == {tree[k].path : k \in {j \in 1..Len(tree) : tree[j].type = "blob"}}

\* a faulty variant: the delete leaves the folder and its files behind
RemovedLeavesFiles(d) == d

\* fs.remove that succeeded: nothing is left of the folder
Removed(d) == EmptyFolder

\* fs.remove that threw: the folder is still there, any of its files may be gone
PartlyRemoved(d) ==
    {[exists |-> TRUE, files |-> g] :
        g \in {h \in [Paths -> Content \cup {None}] :
                  \A p \in Paths : h[p] \in {d.files[p], None}}}

\* a faulty variant: the directory is ensured but the content is never written
WriteFileLost(d, p, data) == [d EXCEPT !.exists = TRUE]

\* fs.ensureDir(path.dirname(destPath)) then fs.writeFile(destPath, data)
WriteFile(d, p, data) == [exists |-> TRUE, files |-> [d.files EXCEPT ![p] = data]]

\* the same two calls when one of them throws
WriteFailed(d, p, how) ==
    CASE how = "ensureDir" -> d
      [] how = "open" -> [d EXCEPT !.exists = TRUE]
      [] OTHER -> [exists |-> TRUE, files |-> [d.files EXCEPT ![p] = Partial]]

WriteFailures == {"ensureDir", "open", "write"}

-----------------------------------------------------------------------------
(* State groups *)

menuVars == <<action, item, remoteTree, wasInstalled>>
dlVars == <<files, idx, bar>>
dfVars == <<attempt, response, dfAttempts, dfWaits, dfNetFails, dfFsFails>>
rmVars == <<rmTry, rmAttempts, rmWaits>>
netObs == <<listReqs, fetched, written>>
suVars == <<suFile, updated, restart>>

\* start(): index.cjs awaits selfUpdate() before mainMenu(), part_000 does not
FirstStep(v) == IF v = "index_cjs" THEN "su_hash" ELSE "menu"

Init ==
    /\ variant \in Variants
    /\ pc = FirstStep(variant)
    /\ suFile = 0
    /\ updated = FALSE
    /\ restart = "none"
    /\ action = "none"
    /\ item = "none"
    /\ disk = [e \in Catalog |-> EmptyFolder]
    /\ remoteTree = <<>>
    /\ files = <<>>
    /\ idx = 0
    /\ bar = NoBar
    /\ attempt = 0
    /\ response = None
    /\ rmTry = 0
    /\ rmFailures = 0
    /\ log = {}
    /\ wasInstalled = FALSE
    /\ dlStartExists = FALSE
    /\ unResult = "none"
    /\ dlResult = "none"
    /\ listReqs = 0
    /\ fetched = {}
    /\ written = NoWritten
    /\ dfAttempts = 0
    /\ dfWaits = 0
    /\ dfNetFails = 0
    /\ dfFsFails = 0
    /\ rmAttempts = 0
    /\ rmWaits = 0
    /\ dlRemoves = 0
    /\ npmRuns = 0
    /\ launched = FALSE

\* the locals and observations of an operation, as they are before it starts
FreshOperation ==
    /\ action' = "none"
    /\ item' = "none"
    /\ remoteTree' = <<>>
    /\ files' = <<>>
    /\ idx' = 0
    /\ bar' = NoBar
    /\ attempt' = 0
    /\ response' = None
    /\ rmTry' = 0
    /\ rmFailures' = 0
    /\ log' = {}
    /\ wasInstalled' = FALSE
    /\ dlStartExists' = FALSE
    /\ unResult' = "none"
    /\ dlResult' = "none"
    /\ listReqs' = 0
    /\ fetched' = {}
    /\ written' = NoWritten
    /\ dfAttempts' = 0
    /\ dfWaits' = 0
    /\ dfNetFails' = 0
    /\ dfFsFails' = 0
    /\ rmAttempts' = 0
    /\ rmWaits' = 0
    /\ dlRemoves' = 0
    /\ npmRuns' = 0
    /\ launched' = FALSE

-----------------------------------------------------------------------------
(* handleDownload's entry, and what follows handleUninstall's return: both run *)
(* in the step that calls them, up to their first await.                       *)

\* handleDownload(e) up to its first await: the overwrite prompt or the tree request
BeginDownload(e, lg) ==
    /\ dlStartExists' = disk'[e].exists
    /\ IF disk'[e].exists
       THEN pc' = "dl_prompt" /\ log' = lg
       ELSE pc' = "dl_list" /\ log' = lg \cup {"Downloading"}

\* handleUninstall returns: handleUpdate goes on to handleDownload, mainMenu to its prompt
EndUninstall(e, lg) ==
    IF action = "Update"
    THEN BeginDownload(e, lg)
    ELSE /\ pc' = "cont"
         /\ log' = lg
         /\ dlStartExists' = dlStartExists

\* a faulty variant: handleUninstall deletes without asking
BeginUninstallNoPrompt(e, lg) ==
    IF disk[e].exists
    THEN /\ pc' = "un_remove"
         /\ log' = lg
         /\ UNCHANGED <<unResult, dlStartExists>>
    ELSE /\ unResult' = "nothing"
         /\ EndUninstall(e, lg \cup {"NothingToUninstall"})

\* handleUninstall(e) up to its first await
BeginUninstall(e, lg) ==
    IF disk[e].exists
    THEN /\ pc' = "un_prompt"
         /\ log' = lg
         /\ UNCHANGED <<unResult, dlStartExists>>
    ELSE /\ unResult' = "nothing"
         /\ EndUninstall(e, lg \cup {"NothingToUninstall"})

\* a faulty variant: the progress bar is never stopped
FinishDownloadNoStop(e, lg, b) ==
    /\ bar' = b
    /\ IF disk'[e].files["package.json"] # None
       THEN /\ pc' = "npm"
            /\ log' = lg \cup {"Downloaded", "NpmDetected"}
            /\ dlResult' = dlResult
       ELSE /\ pc' = "cont"
            /\ log' = lg \cup {"Downloaded"}
            /\ dlResult' = "ok"

\* a faulty variant: npm install is run whether or not package.json exists
FinishDownloadAlwaysNpm(e, lg, b) ==
    /\ bar' = [b EXCEPT !.active = FALSE]
    /\ pc' = "npm"
    /\ log' = lg \cup {"Downloaded", "NpmDetected"}
    /\ dlResult' = dlResult

\* the end of handleDownload's try block: bar.stop(), then installDependencies
FinishDownload(e, lg, b) ==
    /\ bar' = [b EXCEPT !.active = FALSE]
    /\ IF disk'[e].files["package.json"] # None
       THEN /\ pc' = "npm"
            /\ log' = lg \cup {"Downloaded", "NpmDetected"}
            /\ dlResult' = dlResult
       ELSE /\ pc' = "cont"
            /\ log' = lg \cup {"Downloaded"}
            /\ dlResult' = "ok"

-----------------------------------------------------------------------------
(* selfUpdate (index.cjs) *)

\* the end of one iteration of selfUpdate's loop, u being the value of updated:
\* the next file, or the if (updated) after the loop and the return to start(),
\* which calls mainMenu
SelfUpdateNext(u) ==
    /\ suFile' = suFile + 1
    /\ updated' = u
    /\ IF suFile + 1 < Len(FilesToCheck)
       THEN pc' = "su_hash" /\ restart' = restart
       ELSE pc' = "menu" /\ restart' = (IF u THEN "scheduled" ELSE restart)

\* Promise.all([fileHash, urlHash]) resolves; differs is local !== remote && remote
SuHash(differs) ==
    /\ pc = "su_hash"
    /\ IF differs
       THEN pc' = "su_get" /\ UNCHANGED suVars
       ELSE SelfUpdateNext(updated)
    /\ UNCHANGED <<variant, menuVars, disk, dlVars, dfVars, rmVars, rmFailures, log,
                   dlStartExists, unResult, dlResult, netObs, dlRemoves, npmRuns,
                   launched>>

\* axios.get(remoteURL) resolves: fs.writeFileSync(localPath, ...), updated = true
SuGetOk ==
    /\ pc = "su_get"
    /\ SelfUpdateNext(TRUE)
    /\ UNCHANGED <<variant, menuVars, disk, dlVars, dfVars, rmVars, rmFailures, log,
                   dlStartExists, unResult, dlResult, netObs, dlRemoves, npmRuns,
                   launched>>

\* axios.get(remoteURL) rejects, outside any try: the exception leaves selfUpdate
\* and start
SuGetFail ==
    /\ pc = "su_get"
    /\ pc' = "crashed"
    /\ UNCHANGED <<variant, suVars, menuVars, disk, dlVars, dfVars, rmVars,
                   rmFailures, log, dlStartExists, unResult, dlResult, netObs,
                   dlRemoves, npmRuns, launched>>

\* the positions at which the process is gone
Gone == {"exited", "crashed", "restarted"}

\* the setTimeout callback runs, whatever the process is awaiting: a new node
\* process is spawned and process.exit(0) ends this one with all it was doing
RestartFires ==
    /\ restart = "scheduled"
    /\ pc \notin Gone
    /\ restart' = "fired"
    /\ pc' = "restarted"
    /\ FreshOperation
    /\ UNCHANGED <<variant, disk, suFile, updated>>

-----------------------------------------------------------------------------
(* mainMenu *)

\* available.json is missing: mainMenu prints and returns
MenuCatalogMissing ==
    /\ pc = "menu"
    /\ pc' = "returned"
    /\ UNCHANGED <<variant, suVars, menuVars, disk, dlVars, dfVars, rmVars, rmFailures, log,
                   dlStartExists, unResult, dlResult, netObs, dlRemoves, npmRuns,
                   launched>>

\* the user picks Exit
MenuExit ==
    /\ pc = "menu"
    /\ pc' = "exited"
    /\ UNCHANGED <<variant, suVars, menuVars, disk, dlVars, dfVars, rmVars, rmFailures, log,
                   dlStartExists, unResult, dlResult, netObs, dlRemoves, npmRuns,
                   launched>>

\* the user picks an action the menu has no entry for: the loop continues
MenuNoneInstalled(a) ==
    /\ pc = "menu"
    /\ a \in MenuChoices(variant) \ {"Exit"}
    /\ FilteredData(a) = {}
    /\ UNCHANGED vars

\* the user picks an action: the repository prompt follows
MenuChoose(a) ==
    /\ pc = "menu"
    /\ a \in MenuChoices(variant) \ {"Exit"}
    /\ FilteredData(a) # {}
    /\ pc' = "select"
    /\ action' = a
    /\ UNCHANGED <<variant, suVars, item, remoteTree, wasInstalled, disk, dlVars, dfVars,
                   rmVars, rmFailures, log, dlStartExists, unResult, dlResult, netObs,
                   dlRemoves, npmRuns, launched>>

\* the user cancels the repository prompt: if (!selected) continue
SelectCancel ==
    /\ pc = "select"
    /\ pc' = "menu"
    /\ action' = "none"
    /\ UNCHANGED <<variant, suVars, item, remoteTree, wasInstalled, disk, dlVars, dfVars,
                   rmVars, rmFailures, log, dlStartExists, unResult, dlResult, netObs,
                   dlRemoves, npmRuns, launched>>

\* if (action === "Download") await handleDownload(selected)
SelectDownload(e, tree) ==
    /\ pc = "select"
    /\ action = "Download"
    /\ e \in FilteredData(action)
    /\ item' = e
    /\ remoteTree' = tree
    /\ wasInstalled' = Installed(e)
    /\ disk' = disk
    /\ BeginDownload(e, {})
    /\ UNCHANGED <<variant, suVars, action, dlVars, dfVars, rmVars, rmFailures, unResult,
                   dlResult, netObs, dlRemoves, npmRuns, launched>>

\* if (action === "Uninstall") await handleUninstall(selected)
SelectUninstall(e) ==
    /\ pc = "select"
    /\ action = "Uninstall"
    /\ e \in FilteredData(action)
    /\ item' = e
    /\ wasInstalled' = Installed(e)
    /\ disk' = disk
    /\ BeginUninstall(e, {})
    /\ UNCHANGED <<variant, suVars, action, remoteTree, dlVars, dfVars, rmVars, rmFailures,
                   dlResult, netObs, dlRemoves, npmRuns, launched>>

\* if (action === "Update") await handleUpdate(selected)
SelectUpdate(e, tree) ==
    /\ pc = "select"
    /\ action = "Update"
    /\ e \in FilteredData(action)
    /\ item' = e
    /\ remoteTree' = tree
    /\ wasInstalled' = Installed(e)
    /\ disk' = disk
    /\ BeginUninstall(e, {"Updating"})
    /\ UNCHANGED <<variant, suVars, action, dlVars, dfVars, rmVars, rmFailures, dlResult,
                   netObs, dlRemoves, npmRuns, launched>>

\* a faulty variant: startRepo does not look for the start file
SelectStartNoFileCheck(e) ==
    /\ pc = "select"
    /\ action = "Start"
    /\ e \in FilteredData(action)
    /\ item' = e
    /\ wasInstalled' = Installed(e)
    /\ IF ~disk[e].exists
       THEN log' = {"NotInstalled"} /\ launched' = FALSE
       ELSE log' = {"Launching"} /\ launched' = TRUE
    /\ pc' = "cont"
    /\ UNCHANGED <<variant, suVars, action, remoteTree, disk, dlVars, dfVars, rmVars,
                   rmFailures, dlStartExists, unResult, dlResult, netObs, dlRemoves,
                   npmRuns>>

\* if (action === "Start") await startRepo(selected)
SelectStart(e) ==
    /\ pc = "select"
    /\ action = "Start"
    /\ e \in FilteredData(action)
    /\ item' = e
    /\ wasInstalled' = Installed(e)
    /\ IF ~disk[e].exists
       THEN log' = {"NotInstalled"} /\ launched' = FALSE
       ELSE IF disk[e].files[StartFile(e)] = None
            THEN log' = {"StartFileNotFound"} /\ launched' = FALSE
            ELSE log' = {"Launching"} /\ launched' = TRUE
    /\ pc' = "cont"
    /\ UNCHANGED <<variant, suVars, action, remoteTree, disk, dlVars, dfVars, rmVars,
                   rmFailures, dlStartExists, unResult, dlResult, netObs, dlRemoves,
                   npmRuns>>

-----------------------------------------------------------------------------
(* handleDownload *)

\* a faulty variant: the folder is removed before the answer is looked at
DlPromptNoRemoves ==
    /\ pc = "dl_prompt"
    /\ disk' = [disk EXCEPT ![item] = EmptyFolder]
    /\ dlResult' = "declined"
    /\ pc' = "cont"
    /\ UNCHANGED <<variant, suVars, menuVars, dlVars, dfVars, rmVars, rmFailures, log,
                   dlStartExists, unResult, netObs, dlRemoves, npmRuns, launched>>

\* "already exists. Overwrite?" answered no (or cancelled): if (!overwrite) return
DlPromptNo ==
    /\ pc = "dl_prompt"
    /\ dlResult' = "declined"
    /\ pc' = "cont"
    /\ UNCHANGED <<variant, suVars, menuVars, disk, dlVars, dfVars, rmVars, rmFailures, log,
                   dlStartExists, unResult, netObs, dlRemoves, npmRuns, launched>>

\* the prompt answered yes: fs.remove(targetFolder) is called; the filesystem will
\* fail m calls before it lets one succeed
DlPromptYes(m) ==
    /\ pc = "dl_prompt"
    /\ pc' = "dl_remove"
    /\ rmFailures' = m
    /\ UNCHANGED <<variant, suVars, menuVars, disk, dlVars, dfVars, rmVars, log,
                   dlStartExists, unResult, dlResult, netObs, dlRemoves, npmRuns,
                   launched>>

\* a faulty variant: the tree request is sent with the old folder still in place
DlRemoveOkKeepsFolder ==
    /\ pc = "dl_remove"
    /\ rmFailures = 0
    /\ disk' = disk
    /\ dlRemoves' = dlRemoves + 1
    /\ log' = log \cup {"Downloading"}
    /\ pc' = "dl_list"
    /\ UNCHANGED <<variant, suVars, menuVars, dlVars, dfVars, rmVars, rmFailures,
                   dlStartExists, unResult, dlResult, netObs, npmRuns, launched>>

\* await fs.remove(targetFolder) resolves; the tree request is sent
DlRemoveOk ==
    /\ pc = "dl_remove"
    /\ rmFailures = 0
    /\ disk' = [disk EXCEPT ![item] = Removed(disk[item])]
    /\ dlRemoves' = dlRemoves + 1
    /\ log' = log \cup {"Downloading"}
    /\ pc' = "dl_list"
    /\ UNCHANGED <<variant, suVars, menuVars, dlVars, dfVars, rmVars, rmFailures,
                   dlStartExists, unResult, dlResult, netObs, npmRuns, launched>>

\* await fs.remove(targetFolder) rejects, outside any try: the exception leaves
\* handleDownload, mainMenu and start
DlRemoveFail ==
    /\ pc = "dl_remove"
    /\ rmFailures > 0
    /\ \E d \in PartlyRemoved(disk[item]) : disk' = [disk EXCEPT ![item] = d]
    /\ rmFailures' = rmFailures - 1
    /\ dlRemoves' = dlRemoves + 1
    /\ dlResult' = "threw"
    /\ pc' = "crashed"
    /\ UNCHANGED <<variant, suVars, menuVars, dlVars, dfVars, rmVars, log, dlStartExists,
                   unResult, netObs, npmRuns, launched>>

\* a faulty variant: a failed tree request is sent again, up to three times
DlListFailRetries ==
    /\ pc = "dl_list"
    /\ listReqs' = listReqs + 1
    /\ IF listReqs < 2
       THEN /\ pc' = "dl_list"
            /\ UNCHANGED <<log, dlResult>>
       ELSE /\ log' = log \cup {"ErrorDownloading"}
            /\ dlResult' = "listFail"
            /\ pc' = "cont"
    /\ UNCHANGED <<variant, suVars, menuVars, disk, dlVars, dfVars, rmVars, rmFailures,
                   dlStartExists, unResult, fetched, written, dlRemoves, npmRuns,
                   launched>>

\* fetchRepoFiles rejects: the catch block prints the error
DlListFail ==
    /\ pc = "dl_list"
    /\ listReqs' = listReqs + 1
    /\ log' = log \cup {"ErrorDownloading"}
    /\ dlResult' = "listFail"
    /\ pc' = "cont"
    /\ UNCHANGED <<variant, suVars, menuVars, disk, dlVars, dfVars, rmVars, rmFailures,
                   dlStartExists, unResult, fetched, written, dlRemoves, npmRuns,
                   launched>>

\* fetchRepoFiles resolves: bar.start(files.length, 0), then the loop's first call
\* of downloadFile, or the end of the try block when there is no file
DlListOk ==
    /\ pc = "dl_list"
    /\ listReqs' = listReqs + 1
    /\ files' = BlobFilter(remoteTree)
    /\ idx' = 0
    /\ disk' = disk
    /\ IF Len(files') = 0
       THEN FinishDownload(item, log, [total |-> 0, value |-> 0, active |-> TRUE])
       ELSE /\ pc' = "df_get"
            /\ bar' = [total |-> Len(files'), value |-> 0, active |-> TRUE]
            /\ UNCHANGED <<log, dlResult>>
    /\ UNCHANGED <<variant, suVars, menuVars, dfVars, rmVars, rmFailures, dlStartExists,
                   unResult, fetched, written, dlRemoves, npmRuns, launched>>

\* a faulty variant: the loop takes the files from the end of the listing
CurrentPathBackwards == files[Len(files) - idx].path

\* the path downloadFile is fetching
CurrentPath == files[idx + 1].path

\* a faulty variant: handleDownload's catch removes the partial folder
DownloadCatchCleansUp(d) ==
    IF LastDownloadAttempt(attempt)
    THEN /\ disk' = [disk EXCEPT ![item] = EmptyFolder]
         /\ log' = log \cup {"ErrorDownloading"}
         /\ dlResult' = "fetchFail"
         /\ pc' = "cont"
    ELSE /\ disk' = [disk EXCEPT ![item] = d]
         /\ pc' = "df_wait"
         /\ UNCHANGED <<log, dlResult>>

\* downloadFile's catch block, the folder being d when it is entered: throw on
\* the last attempt (handleDownload's catch prints it and does nothing else), else wait
DownloadCatch(d) ==
    /\ disk' = [disk EXCEPT ![item] = d]
    /\ IF LastDownloadAttempt(attempt)
       THEN /\ log' = log \cup {"ErrorDownloading"}
            /\ dlResult' = "fetchFail"
            /\ pc' = "cont"
       ELSE /\ pc' = "df_wait"
            /\ UNCHANGED <<log, dlResult>>

\* axios.get(url) rejects
DfGetFail ==
    /\ pc = "df_get"
    /\ dfAttempts' = dfAttempts + 1
    /\ dfNetFails' = dfNetFails + 1
    /\ fetched' = fetched \cup {CurrentPath}
    /\ DownloadCatch(disk[item])
    /\ UNCHANGED <<variant, suVars, menuVars, dlVars, attempt, response, dfWaits,
                   dfFsFails, rmVars, rmFailures, dlStartExists, unResult, listReqs,
                   written, dlRemoves, npmRuns, launched>>

\* axios.get(url) resolves with body b, then ensureDir or writeFile rejects
DfWriteFail(b, how) ==
    /\ pc = "df_get"
    /\ dfAttempts' = dfAttempts + 1
    /\ dfFsFails' = dfFsFails + 1
    /\ fetched' = fetched \cup {CurrentPath}
    /\ response' = b
    /\ DownloadCatch(WriteFailed(disk[item], CurrentPath, how))
    /\ UNCHANGED <<variant, suVars, menuVars, dlVars, attempt, dfWaits, dfNetFails, rmVars,
                   rmFailures, dlStartExists, unResult, listReqs, written, dlRemoves,
                   npmRuns, launched>>

\* axios.get(url) resolves with body b and the file is written: downloadFile
\* returns and handleDownload calls bar.update(i + 1)
DfGetOk(b) ==
    /\ pc = "df_get"
    /\ dfAttempts' = dfAttempts + 1
    /\ fetched' = fetched \cup {CurrentPath}
    /\ response' = b
    /\ disk' = [disk EXCEPT ![item] = WriteFile(disk[item], CurrentPath, b)]
    /\ written' = [written EXCEPT ![CurrentPath] = b]
    /\ bar' = [bar EXCEPT !.value = idx + 1]
    /\ idx' = idx + 1
    /\ pc' = "dl_next"
    /\ UNCHANGED <<variant, suVars, menuVars, files, attempt, dfWaits, dfNetFails, dfFsFails,
                   rmVars, rmFailures, log, dlStartExists, unResult, dlResult,
                   listReqs, dlRemoves, npmRuns, launched>>

\* await new Promise(res => setTimeout(res, 1000)) resolves: the next attempt
DfWait ==
    /\ pc = "df_wait"
    /\ dfWaits' = dfWaits + 1
    /\ attempt' = attempt + 1
    /\ pc' = "df_get"
    /\ UNCHANGED <<variant, suVars, menuVars, disk, dlVars, response, dfAttempts, dfNetFails,
                   dfFsFails, rmVars, rmFailures, log, dlStartExists, unResult,
                   dlResult, netObs, dlRemoves, npmRuns, launched>>

\* the loop goes on: the next file's downloadFile call, or the end of the try block
DlNext ==
    /\ pc = "dl_next"
    /\ disk' = disk
    /\ IF idx < Len(files)
       THEN /\ pc' = "df_get"
            /\ attempt' = 0
            /\ response' = None
            /\ dfAttempts' = 0
            /\ dfWaits' = 0
            /\ dfNetFails' = 0
            /\ dfFsFails' = 0
            /\ UNCHANGED <<bar, log, dlResult>>
       ELSE /\ FinishDownload(item, log, bar)
            /\ UNCHANGED dfVars
    /\ UNCHANGED <<variant, suVars, menuVars, files, idx, rmVars, rmFailures, dlStartExists,
                   unResult, netObs, dlRemoves, npmRuns, launched>>

\* installDependencies: the npm install command ends, well or not; both resolve
NpmInstall(ok) ==
    /\ pc = "npm"
    /\ npmRuns' = npmRuns + 1
    /\ log' = log \cup {IF ok THEN "NpmComplete" ELSE "NpmFailed"}
    /\ dlResult' = "ok"
    /\ pc' = "cont"
    /\ UNCHANGED <<variant, suVars, menuVars, disk, dlVars, dfVars, rmVars, rmFailures,
                   dlStartExists, unResult, netObs, dlRemoves, launched>>

-----------------------------------------------------------------------------
(* handleUninstall *)

\* "Are you sure you want to uninstall?" answered no: handleUninstall returns
UnPromptNo ==
    /\ pc = "un_prompt"
    /\ unResult' = "declined"
    /\ disk' = disk
    /\ EndUninstall(item, log)
    /\ UNCHANGED <<variant, suVars, menuVars, dlVars, dfVars, rmVars, rmFailures, dlResult,
                   netObs, dlRemoves, npmRuns, launched>>

\* the prompt answered yes: the delete starts; the filesystem will fail m calls
\* of fs.remove before it lets one succeed
UnPromptYes(m) ==
    /\ pc = "un_prompt"
    /\ pc' = "un_remove"
    /\ rmFailures' = m
    /\ UNCHANGED <<variant, suVars, menuVars, disk, dlVars, dfVars, rmVars, log,
                   dlStartExists, unResult, dlResult, netObs, dlRemoves, npmRuns,
                   launched>>

\* fs.remove resolves: "Uninstalled" is printed and handleUninstall returns
UnRemoveOk ==
    /\ pc = "un_remove"
    /\ rmFailures = 0
    /\ rmAttempts' = rmAttempts + 1
    /\ disk' = [disk EXCEPT ![item] = Removed(disk[item])]
    /\ unResult' = "ok"
    /\ EndUninstall(item, log \cup {"Uninstalled"})
    /\ UNCHANGED <<variant, suVars, menuVars, dlVars, dfVars, rmTry, rmWaits, rmFailures,
                   dlResult, netObs, dlRemoves, npmRuns, launched>>

\* what a rejected fs.remove leads to: part_000 retries inside removeWithRetries
\* and catches the last failure; index.cjs has no try around its single call
RemoveCatch ==
    IF variant = "part_000"
    THEN IF LastRemoveTry(rmTry)
         THEN /\ unResult' = "failed"
              /\ EndUninstall(item, log \cup {"FailedToUninstall"})
         ELSE /\ pc' = "un_wait"
              /\ UNCHANGED <<unResult, log, dlStartExists>>
    ELSE /\ unResult' = "threw"
         /\ pc' = "crashed"
         /\ UNCHANGED <<log, dlStartExists>>

\* fs.remove rejects
UnRemoveFail ==
    /\ pc = "un_remove"
    /\ rmFailures > 0
    /\ rmFailures' = rmFailures - 1
    /\ rmAttempts' = rmAttempts + 1
    /\ \E d \in PartlyRemoved(disk[item]) : disk' = [disk EXCEPT ![item] = d]
    /\ RemoveCatch
    /\ UNCHANGED <<variant, suVars, menuVars, dlVars, dfVars, rmTry, rmWaits, dlResult,
                   netObs, dlRemoves, npmRuns, launched>>

\* await new Promise(res => setTimeout(res, delayMs)) resolves: the next try
UnWait ==
    /\ pc = "un_wait"
    /\ rmWaits' = rmWaits + 1
    /\ rmTry' = rmTry + 1
    /\ pc' = "un_remove"
    /\ UNCHANGED <<variant, suVars, menuVars, disk, dlVars, dfVars, rmAttempts, rmFailures,
                   log, dlStartExists, unResult, dlResult, netObs, dlRemoves,
                   npmRuns, launched>>

-----------------------------------------------------------------------------
(* mainMenu, after the operation *)

\* "Return to menu?" answered yes: the next iteration of the loop
ContYes ==
    /\ pc = "cont"
    /\ pc' = "menu"
    /\ FreshOperation
    /\ UNCHANGED <<variant, suVars, disk>>

\* "Return to menu?" answered no: process.exit(0)
ContNo ==
    /\ pc = "cont"
    /\ pc' = "exited"
    /\ UNCHANGED <<variant, suVars, menuVars, disk, dlVars, dfVars, rmVars, rmFailures, log,
                   dlStartExists, unResult, dlResult, netObs, dlRemoves, npmRuns,
                   launched>>

Next ==
    \/ \E differs \in BOOLEAN : SuHash(differs)
    \/ SuGetOk
    \/ SuGetFail
    \/ RestartFires
    \/ MenuCatalogMissing
    \/ MenuExit
    \/ \E a \in MenuChoices(variant) : MenuNoneInstalled(a)
    \/ \E a \in MenuChoices(variant) : MenuChoose(a)
    \/ SelectCancel
    \/ \E e \in Catalog, tree \in Listings : SelectDownload(e, tree)
    \/ \E e \in Catalog : SelectUninstall(e)
    \/ \E e \in Catalog, tree \in Listings : SelectUpdate(e, tree)
    \/ \E e \in Catalog : SelectStart(e)
    \/ DlPromptNo
    \/ \E m \in 0..MaxRmFails : DlPromptYes(m)
    \/ DlRemoveOk
    \/ DlRemoveFail
    \/ DlListFail
    \/ DlListOk
    \/ DfGetFail
    \/ \E b \in Bodies, how \in WriteFailures : DfWriteFail(b, how)
    \/ \E b \in Bodies : DfGetOk(b)
    \/ DfWait
    \/ DlNext
    \/ \E ok \in BOOLEAN : NpmInstall(ok)
    \/ UnPromptNo
    \/ \E m \in 0..MaxRmFails : UnPromptYes(m)
    \/ UnRemoveOk
    \/ UnRemoveFail
    \/ UnWait
    \/ ContYes
    \/ ContNo

Spec == Init /\ [][Next]_vars

-----------------------------------------------------------------------------
(* Observations the properties are stated over *)

\* handleDownload ran its try block to an end (the materialization happened)
Materialized == dlResult \in {"ok", "listFail", "fetchFail"}

\* the operation printed no failure message
NoFailureReported ==
    log \cap {"ErrorDownloading", "FailedToUninstall", "NpmFailed"} = {}

\* the current operation is over: mainMenu is at its "Return to menu?" prompt
AtReturnPrompt == pc = "cont"

\* downloadFile has just returned normally, for the path files[idx]
DownloadFileReturned == pc = "dl_next"

\* the confirmed delete of handleUninstall is over (it returned or it threw)
UninstallDeleteOver == unResult \in {"ok", "failed", "threw"}

\* how many calls of fs.remove the filesystem was set to fail before a success,
\* seen when the delete of handleUninstall is over
PlannedRemoveFailures ==
    IF unResult = "ok" THEN rmAttempts - 1 ELSE rmAttempts + rmFailures

-----------------------------------------------------------------------------
C2_FetchSucceedsAfterKFailures ==
    /\ (DownloadFileReturned /\ dfFsFails = 0) =>
           /\ dfNetFails <= DownloadRetries
           /\ dfAttempts = dfNetFails + 1
           /\ dfWaits = dfNetFails
           /\ response \in Bodies
           /\ disk[item].files[files[idx].path] = response
    /\ dlResult = "fetchFail" => dfNetFails + dfFsFails = DownloadRetries + 1

C2_Witness ==
    /\ DownloadFileReturned
    /\ dfFsFails = 0
    /\ dfNetFails = DownloadRetries
    /\ disk[item].files[files[idx].path] = "b2"

(* C3: downloadFile with retries = 3: when the transport fails on every        *)
(* attempt, exactly 4 requests are made, the retry-exhausted error is raised,  *)
(* and no file exists at destPath; a fifth request is never made.              *)
C3_FetchExhaustsAfterFourAttempts ==
    /\ dfAttempts <= DownloadRetries + 1
    /\ (dlResult = "fetchFail" /\ dfFsFails = 0) =>
           /\ dfAttempts = DownloadRetries + 1
           /\ dfNetFails = DownloadRetries + 1
           /\ dfWaits = DownloadRetries
           /\ "ErrorDownloading" \in log
           /\ disk[item].files[CurrentPath] = None
           /\ written[CurrentPath] = None

C3_Witness ==
    /\ dlResult = "fetchFail"
    /\ dfFsFails = 0
    /\ dfNetFails = DownloadRetries + 1
    /\ idx = 1

(* C4: handleDownload on an existing folder with the overwrite prompt declined *)
(* changes nothing on disk and sends no tree or file request, however often    *)
(* it is repeated.                                                             *)
C4_DeclinedInstallChangesNothing ==
    /\ [](AtReturnPrompt /\ action = "Download" /\ dlResult = "declined" =>
             /\ disk[item].exists
             /\ listReqs = 0
             /\ fetched = {}
             /\ written = NoWritten
             /\ dlRemoves = 0)
    /\ [][(action' = "Download" /\ (pc' = "dl_prompt" \/ dlResult' = "declined")) =>
             /\ disk' = disk
             /\ listReqs' = listReqs
             /\ fetched' = fetched]_vars

C4_Witness ==
    /\ AtReturnPrompt /\ action = "Download" /\ dlResult = "declined"
    /\ FileSet(disk[item]) = {"index.js", "package.json"}

C6_Original ==
    (UninstallDeleteOver /\ PlannedRemoveFailures < RemoveRetries) =>
        /\ unResult = "ok"
        /\ rmAttempts = PlannedRemoveFailures + 1
        /\ rmWaits = PlannedRemoveFailures
        /\ action = "Uninstall" => ~disk[item].exists

\* what C6 states holds of the variant that has removeWithRetries
C6_HoldsWithRemoveWithRetries ==
    variant = "part_000" => C6_Original

(* C7, as stated: when fs.remove fails on all 5 calls, uninstall makes exactly *)
(* 5 calls and no more, the error is printed as an uninstall failure, and the  *)
(* folder still exists.                                                        *)
C7_Original ==
    /\ rmAttempts <= RemoveRetries
    /\ (UninstallDeleteOver /\ PlannedRemoveFailures >= RemoveRetries) =>
           /\ rmAttempts = RemoveRetries
           /\ rmWaits = RemoveRetries - 1
           /\ unResult = "failed"
           /\ "FailedToUninstall" \in log
           /\ action = "Uninstall" => (AtReturnPrompt => disk[item].exists)

\* what C7 states holds of the variant that has removeWithRetries
C7_HoldsWithRemoveWithRetries ==
    variant = "part_000" => C7_Original

(* C8, as stated: when Update's uninstall removed the folder and its install   *)
(* fails (the tree listing fails, or a file fetch exhausts its retries), the   *)
(* folder does not exist when Update returns.                                  *)
C8_Original ==
    (AtReturnPrompt /\ action = "Update" /\ unResult = "ok"
        /\ dlResult \in {"listFail", "fetchFail"}) =>
        ~disk[item].exists

(* C8, amended: in such a run the folder does not exist when Update returns if *)
(* the tree listing failed or the first file's fetch exhausted its retries on  *)
(* transport failures; if a fetch exhausted its retries after one or more      *)
(* files were written, the folder exists and holds the files written so far.   *)
C8_FailedUpdateLeavesAbsentOrPartial ==
    (AtReturnPrompt /\ action = "Update" /\ unResult = "ok"
        /\ dlResult \in {"listFail", "fetchFail"}) =>
        /\ dlResult = "listFail" => ~disk[item].exists
        /\ (dlResult = "fetchFail" /\ idx = 0 /\ dfFsFails = 0) => ~disk[item].exists
        /\ (dlResult = "fetchFail" /\ idx > 0) =>
               /\ disk[item].exists
               /\ \A k \in 1..idx :
                      /\ written[files[k].path] \in Bodies
                      /\ disk[item].files[files[k].path] = written[files[k].path]

C8_Witness ==
    /\ AtReturnPrompt /\ action = "Update" /\ unResult = "ok"
    /\ dlResult = "fetchFail"
    /\ idx = 1
    /\ disk[item].exists
    /\ FileSet(disk[item]) = {files[1].path}

(* C9: when the fetch of the i-th file exhausts its retries, no later file is  *)
(* ever requested or written, every earlier file is on disk with the content   *)
(* fetched for it, nothing is deleted, and npm install is not run.             *)
C9_FailFastWithoutCleanup ==
    dlResult = "fetchFail" =>
        /\ \A k \in 1..Len(files) :
               k > idx + 1 =>
                   /\ files[k].path \notin fetched
                   /\ disk[item].files[files[k].path] = None
        /\ \A k \in 1..idx :
               /\ written[files[k].path] \in Bodies
               /\ disk[item].files[files[k].path] = written[files[k].path]
        /\ idx >= 1 => disk[item].exists
        /\ dlRemoves = (IF dlStartExists THEN 1 ELSE 0)
        /\ npmRuns = 0
        /\ log \cap {"Downloaded", "NpmDetected", "NpmComplete", "NpmFailed"} = {}

C9_Witness ==
    /\ dlResult = "fetchFail"
    /\ Len(files) = 2
    /\ idx = 1
    /\ disk[item].files[files[1].path] = "b1"
    /\ files[2].path \in fetched

(* C10: a materialization sends exactly one tree-listing request; when it      *)
(* fails, no file request is sent, no file is written, and the failure is      *)
(* printed as the entry's download error.                                      *)
C10_TreeListingNotRetried ==
    /\ listReqs <= 1
    /\ Materialized => listReqs = 1
    /\ dlResult = "listFail" =>
           /\ fetched = {}
           /\ written = NoWritten
           /\ ~disk[item].exists
           /\ FileSet(disk[item]) = {}
           /\ "ErrorDownloading" \in log
           /\ npmRuns = 0

C10_Witness ==
    /\ AtReturnPrompt
    /\ dlResult = "listFail"
    /\ dlStartExists
    /\ listReqs = 1

\* every file of the listing has been fetched and is on disk as it was written
AllFilesWritten ==
    /\ idx = Len(files)
    /\ \A k \in 1..Len(files) :
           /\ written[files[k].path] \in Bodies
           /\ disk[item].files[files[k].path] = written[files[k].path]

(* C11: npm install is run only after the tree listing and every file fetch    *)
(* succeeded and only if package.json exists in the folder; when it fails, no  *)
(* installed file is removed or changed, the folder stays, and handleDownload  *)
(* returns normally.                                                           *)
C11_NpmInstallBestEffort ==
    /\ npmRuns <= 1
    /\ (pc = "npm" \/ npmRuns > 0) =>
           /\ listReqs = 1
           /\ AllFilesWritten
           /\ disk[item].files["package.json"] # None
           /\ "Downloaded" \in log
           /\ "ErrorDownloading" \notin log
    /\ "NpmFailed" \in log =>
           /\ pc \in {"cont", "menu", "exited"}
           /\ dlResult = "ok"
           /\ disk[item].exists
           /\ AllFilesWritten

C11_Witness ==
    /\ AtReturnPrompt
    /\ "NpmFailed" \in log
    /\ FileSet(disk[item]) = {"package.json", "index.js"}
    /\ dlResult = "ok"

\* startRepo was called on the selected entry
StartInvoked == action = "Start" /\ item # "none"

(* C12: startRepo launches the external process if and only if the folder and  *)
(* the start file both exist when it is called; otherwise it launches nothing  *)
(* and prints an error. It changes nothing under the install root and returns  *)
(* without waiting for the process.                                            *)
C12_StartLaunchesIffInstalled ==
    /\ [](StartInvoked =>
             /\ pc \in {"cont", "exited"}
             /\ launched = (disk[item].exists /\ disk[item].files[StartFile(item)] # None)
             /\ launched => log = {"Launching"}
             /\ ~launched => log \in {{"NotInstalled"}, {"StartFileNotFound"}}
             /\ listReqs = 0 /\ fetched = {} /\ written = NoWritten
             /\ dlRemoves = 0 /\ rmAttempts = 0 /\ npmRuns = 0)
    /\ [](launched => StartInvoked)
    /\ [][(action' = "Start" /\ item' # "none") => disk' = disk]_vars

C12_Witness ==
    /\ StartInvoked
    /\ AtReturnPrompt
    /\ launched
    /\ FileSet(disk[item]) = {"index.js"}

\* the positions inside handleDownload and inside handleUninstall
DownloadPcs == {"dl_prompt", "dl_remove", "dl_list", "df_get", "df_wait", "dl_next", "npm"}
UninstallPcs == {"un_prompt", "un_remove", "un_wait"}

\* where path p stands in the tree listing
ListingPosition(p) == CHOOSE k \in 1..Len(remoteTree) : remoteTree[k].path = p

(* C13: one flow of control: handleUninstall and handleDownload never overlap, *)
(* the menu prompts only when no operation is in progress, a request is sent   *)
(* only when every earlier one is answered, and the files are fetched one at   *)
(* a time in listing order, file i+1 only after file i is written.             *)
C13_SingleSequentialFlow ==
    /\ pc \in UninstallPcs =>
           /\ action \in {"Uninstall", "Update"}
           /\ dlResult = "none" /\ listReqs = 0 /\ fetched = {} /\ dlRemoves = 0
    /\ pc \in DownloadPcs =>
           /\ action \in {"Download", "Update"}
           /\ action = "Update" => unResult \in {"nothing", "declined", "ok", "failed"}
           /\ action = "Download" => unResult = "none" /\ rmAttempts = 0
           /\ ~launched
    /\ pc \in {"menu", "select", "su_hash", "su_get"} =>
           /\ item = "none"
           /\ listReqs = 0 /\ fetched = {} /\ written = NoWritten
           /\ unResult = "none" /\ dlResult = "none" /\ ~bar.active
    /\ pc = "dl_list" => listReqs = 0 /\ fetched = {}
    /\ pc \in {"df_get", "df_wait"} =>
           /\ listReqs = 1
           /\ idx < Len(files)
           /\ \A p \in fetched \ {CurrentPath} : written[p] \in Bodies
    /\ \A k \in 1..Len(files) :
           files[k].path \in fetched =>
               /\ k <= idx + 1
               /\ \A j \in 1..(k - 1) :
                      /\ files[j].path \in fetched
                      /\ written[files[j].path] \in Bodies
                      /\ ListingPosition(files[j].path) < ListingPosition(files[k].path)

C13_Witness ==
    /\ pc = "df_get"
    /\ action = "Update"
    /\ unResult = "ok"
    /\ Len(files) = 2
    /\ idx = 1
    /\ fetched = {files[1].path}
    /\ attempt = 0

\* handleUpdate is over: it returned to mainMenu or an exception left it
UpdateOver == action = "Update" /\ item # "none" /\ pc \in {"cont", "crashed", "exited"}

(* C14, as stated: handleUpdate runs handleDownload once after handleUninstall *)
(* whatever handleUninstall's outcome was: folder absent, confirmation         *)
(* declined, delete succeeded, or delete failed.                               *)
C14_Original ==
    /\ UpdateOver => (unResult # "none" /\ dlResult # "none" /\ listReqs <= 1)
    /\ (action = "Update" /\ pc \in DownloadPcs) => unResult # "none"

\* what C14 states holds of the variant that has removeWithRetries
C14_HoldsWithRemoveWithRetries ==
    variant = "part_000" => C14_Original

\* an exception left mainMenu while a lifecycle operation was running
OperationCrashed == pc = "crashed" /\ action \in {"Download", "Uninstall", "Update"}

(* C15, as stated: every failure of a network or filesystem step inside        *)
(* Download, Uninstall or Update is printed and control returns to the         *)
(* "Return to menu?" prompt; no exception propagates out of mainMenu.          *)
C15_Original ==
    /\ ~OperationCrashed
    /\ dlResult \in {"listFail", "fetchFail"} => "ErrorDownloading" \in log
    /\ unResult = "failed" => "FailedToUninstall" \in log
    /\ (dlResult \in {"listFail", "fetchFail"} \/ unResult = "failed") =>
           pc \in DownloadPcs \cup {"cont", "exited"}

\* the exceptions that do leave mainMenu are those of the two fs.remove calls
\* that stand outside any try: the confirmed overwrite's (both variants) and
\* index.cjs's uninstall; every other failure is printed
C15_OnlyUnguardedDeletesEscape ==
    /\ OperationCrashed =>
           \/ dlResult = "threw" /\ dlRemoves = 1
           \/ variant = "index_cjs" /\ unResult = "threw" /\ rmAttempts = 1
    /\ dlResult \in {"listFail", "fetchFail"} => "ErrorDownloading" \in log
    /\ unResult = "failed" => "FailedToUninstall" \in log

\* the paths downloadFile has completely written in this materialization
WrittenPaths == {p \in Paths : written[p] # None}

\* the bar was started by this materialization: bar.start(files.length, 0) ran
BarStarted == bar # NoBar

(* C16: the bar is started with total = number of blob entries and value 0;    *)
(* during a materialization its value is the number of files completely        *)
(* written, which are the first value entries of the listing, and never        *)
(* exceeds the total; when the materialization succeeds the value is the       *)
(* total and the bar is stopped.                                               *)
C16_ProgressTracksWrittenFiles ==
    /\ BarStarted =>
           /\ bar.total = Len(files)
           /\ bar.value = idx
           /\ bar.value = Cardinality(WrittenPaths)
           /\ bar.value \in 0..bar.total
           /\ WrittenPaths = {files[k].path : k \in 1..bar.value}
    /\ bar.active => pc \in {"df_get", "df_wait", "dl_next", "cont", "exited", "restarted"}
    /\ pc \in {"df_get", "df_wait", "dl_next"} => bar.active
    /\ (pc = "npm" \/ dlResult = "ok") =>
           /\ ~bar.active
           /\ bar.value = bar.total
           /\ bar.total = Len(files)
    /\ (pc = "df_get" /\ idx = 0 /\ attempt = 0) =>
           bar = [total |-> Len(files), value |-> 0, active |-> TRUE]

C16_Witness ==
    /\ dlResult = "ok"
    /\ AtReturnPrompt
    /\ Len(files) = 2
    /\ bar = [total |-> 2, value |-> 2, active |-> FALSE]

\* folder state d2 lacks something folder state d1 had
LostSomething(d1, d2) ==
    \/ d1.exists /\ ~d2.exists
    \/ \E p \in Paths : d1.files[p] # None /\ d2.files[p] = None

\* the operation is over and the user declined every prompt it showed
DeclinedEveryPrompt ==
    /\ AtReturnPrompt
    /\ \/ action = "Download" /\ dlResult = "declined"
       \/ action = "Uninstall" /\ unResult = "declined"
       \/ action = "Update" /\ unResult = "declined" /\ dlResult = "declined"

(* C17: a recursive delete of an install folder is started only by the step    *)
(* in which the user answers yes to the operation's own prompt (overwrite       *)
(* prompt for handleDownload, uninstall prompt for handleUninstall; a retry of  *)
(* removeWithRetries follows its wait); nothing is deleted in any other step;   *)
(* and when every prompt of an operation was declined no delete and no write    *)
(* was attempted, the disk changing in no step outside fs.remove and            *)
(* downloadFile.                                                                *)
C17_DeleteOnlyAfterConfirmation ==
    /\ [](DeclinedEveryPrompt =>
             /\ disk[item].exists
             /\ dlRemoves = 0
             /\ rmAttempts = 0
             /\ written = NoWritten
             /\ fetched = {}
             /\ dfAttempts = 0)
    /\ [](dlRemoves > 0 => dlStartExists /\ dlResult # "declined")
    /\ [](rmAttempts > 0 => unResult # "declined" /\ unResult # "nothing")
    /\ [][/\ (pc' = "dl_remove" /\ pc # "dl_remove") =>
                 pc = "dl_prompt" /\ disk[item].exists /\ item' = item
          /\ (pc' = "un_remove" /\ pc # "un_remove") =>
                 /\ item' = item
                 /\ \/ pc = "un_prompt" /\ disk[item].exists
                    \/ pc = "un_wait" /\ rmAttempts > 0
          /\ disk' # disk => pc \in {"dl_remove", "un_remove", "df_get"}
          /\ (\E e \in Catalog : LostSomething(disk[e], disk'[e])) =>
                 pc \in {"dl_remove", "un_remove"}]_vars

C17_Witness ==
    /\ DeclinedEveryPrompt
    /\ action = "Update"
    /\ FileSet(disk[item]) = {"index.js", "package.json"}

\* handleDownload found the folder, the user confirmed the overwrite
OverwriteConfirmed == dlStartExists /\ dlRemoves > 0

(* C18: after a confirmed overwrite the old folder is already deleted when the *)
(* tree request is sent, and if that request fails the operation ends with     *)
(* the entry absent: no folder, no file written, nothing restored.              *)
C18_OverwriteThenListFailLeavesAbsent ==
    /\ pc = "dl_list" =>
           /\ ~disk[item].exists
           /\ FileSet(disk[item]) = {}
           /\ listReqs = 0
           /\ dlStartExists => dlRemoves = 1
    /\ dlResult = "listFail" =>
           /\ ~disk[item].exists
           /\ FileSet(disk[item]) = {}
           /\ written = NoWritten
           /\ fetched = {}
           /\ "ErrorDownloading" \in log
           /\ dlStartExists => dlRemoves = 1

C18_Witness ==
    /\ AtReturnPrompt
    /\ action = "Download"
    /\ OverwriteConfirmed
    /\ dlResult = "listFail"
    /\ ~disk[item].exists

\* a lifecycle operation is running: handleDownload or handleUninstall has begun
\* and mainMenu has not yet reached its "Return to menu?" prompt
OperationRunning ==
    /\ action \in {"Download", "Uninstall", "Update"}
    /\ pc \in DownloadPcs \cup UninstallPcs

(* C19, as stated: once selfUpdate has overwritten a file and scheduled the    *)
(* restart, no lifecycle operation begins in the old process before it exits.  *)
C19_Original == restart = "scheduled" => ~OperationRunning

\* the restart is scheduled only by index.cjs, only after a file was overwritten,
\* and selfUpdate is over before the menu is shown
C19_RestartOnlyAfterOverwrite ==
    /\ restart # "none" => variant = "index_cjs" /\ updated
    /\ restart = "scheduled" => suFile = Len(FilesToCheck)
    /\ pc \in {"su_hash", "su_get"} => variant = "index_cjs" /\ action = "none"
    /\ pc = "restarted" <=> restart = "fired"

\* the actions whose repository list part_000 filters
GatedActions == {"Start", "Uninstall", "Update"}

\* the repository prompt is shown, or an operation was invoked, for a gated action
GatedPromptShown == pc = "select" /\ action \in GatedActions
GatedInvoked == item # "none" /\ action \in GatedActions

(* C20, as stated: for Start, Uninstall and Update the menu offers only         *)
(* installed entries and shows no repository prompt when none is installed, so  *)
(* these operations are only invoked on an entry that was installed when        *)
(* selected; Download is offered for every catalog entry.                       *)
C20_Original ==
    /\ GatedPromptShown => \E e \in Catalog : Installed(e)
    /\ GatedPromptShown => FilteredData(action) = {e \in Catalog : Installed(e)}
    /\ GatedInvoked => wasInstalled
    /\ FilteredData("Download") = Catalog

(* C20, amended: the above holds in part_000; index.cjs has no Start action     *)
(* and offers every catalog entry for Uninstall and Update, where an operation  *)
(* invoked on an absent entry starts with handleUninstall finding no folder:    *)
(* it prints "Nothing to uninstall" and calls no delete.                        *)
C20_MenuGatingInPart000Only ==
    /\ variant = "part_000" =>
           /\ GatedPromptShown => \E e \in Catalog : Installed(e)
           /\ GatedPromptShown => FilteredData(action) = {e \in Catalog : Installed(e)}
           /\ GatedInvoked => wasInstalled
    /\ variant = "index_cjs" =>
           /\ action # "Start"
           /\ pc = "select" => FilteredData(action) = Catalog
           /\ (GatedInvoked /\ ~wasInstalled) =>
                  /\ unResult = "nothing"
                  /\ rmAttempts = 0
                  /\ "NothingToUninstall" \in log
    /\ FilteredData("Download") = Catalog

C20_Witness ==
    /\ variant = "part_000"
    /\ AtReturnPrompt
    /\ action = "Uninstall"
    /\ wasInstalled
    /\ unResult = "ok"
    /\ ~disk[item].exists

====
